---- MODULE Spec2Model ----
(***************************************************************************)
(* truncate_canvas_manager.py: read CanvasManager.js as text, keep its     *)
(* first 3789 lines, append the closure "\n}() );\n", write the result to  *)
(* CanvasManager.js.tmp and os.replace() it over the original.             *)
(*                                                                         *)
(* A file's content is the sequence of its characters.  Both open() calls  *)
(* of the script are text mode with the default newline=None: on reading   *)
(* "\r\n" and "\r" become "\n", on writing "\n" becomes os.linesep.        *)
(***************************************************************************)
EXTENDS Integers, Sequences, FiniteSets

VARIABLES
    target,           \* the file at file_path: [exists, data]
    temp,             \* the file at temp_path: [exists, data]
    linesep,          \* os.linesep of the platform the script runs on
    pc,               \* the statement the script is at
    lines,            \* lines (line 8)
    partial,          \* characters read that do not make a whole line yet
    truncated_lines,  \* truncated_lines (lines 15, 18)
    pending,          \* text the temp file's writer has to put on disk yet
    writer,           \* the writer of the temp file:
                      \* [marks, sent, held, inc, stage, tries]
    disk,             \* the room the file system of temp_path has:
                      \* [state, room]
    stdout,           \* the counts printed by line 26, in order
    failedAt,         \* the statement whose exception ended the run
    orig,             \* history: the file at file_path before the first run
    origTemp,         \* history: the file at temp_path before the first run
    readData,         \* history: the characters the read() calls of the
                      \* last read returned, one after the other
    outputs,          \* history: content of file_path right after each replace
    runs,             \* history: number of runs started
    extPhases         \* history: the phases of the run in which another
                      \* process has rewritten file_path

vars == <<target, temp, linesep, pc, lines, partial, truncated_lines, pending,
          writer, disk, stdout, failedAt, orig, origTemp, readData, outputs, runs,
          extPhases>>

---------------------------------------------------------------------------
(* Characters and program constants *)

LF == "\n"
CR == "\r"

\* lines[:3789]
N == 3789

\* "\n}() );\n", one list element holding two line terminators
closure == <<LF, "}", "(", ")", " ", ")", ";", LF>>

\* os.linesep: "\n" on POSIX, "\r\n" on Windows
Platforms == {<<LF>>, <<CR, LF>>}

Absent == [exists |-> FALSE, data |-> <<>>]
File(d) == [exists |-> TRUE, data |-> d]

Min(a, b) == IF a < b THEN a ELSE b

---------------------------------------------------------------------------
(* Bounds of the model *)

\* longest content of a small source file, in characters
MaxTail == 3
\* most characters the file system of temp_path still takes when it runs
\* out of room
MaxRoom == 3
\* number of successive runs of the script
MaxRuns == 2

---------------------------------------------------------------------------
(* Text-mode reading: open(file_path, 'r', encoding='utf-8').readlines() *)

\* newline=None on input: "\r\n" and a lone "\r" are translated to "\n"
RECURSIVE Translate(_, _, _)
Translate(s, lo, hi) ==
    IF lo > hi THEN <<>>
    ELSE IF lo = hi THEN
        IF s[lo] = LF /\ lo > 1 /\ s[lo - 1] = CR THEN <<>>
        ELSE IF s[lo] = CR THEN <<LF>>
        ELSE <<s[lo]>>
    ELSE Translate(s, lo, (lo + hi) \div 2)
            \o Translate(s, (lo + hi) \div 2 + 1, hi)

UniversalNewlines(data) == Translate(data, 1, Len(data))

\* two runs of lines put together: an unfinished last line of L continues
\* with the first line of R
Join(L, R) ==
    IF L = <<>> THEN R
    ELSE IF R = <<>> THEN L
    ELSE IF L[Len(L)][Len(L[Len(L)])] = LF THEN L \o R
    ELSE SubSeq(L, 1, Len(L) - 1) \o <<L[Len(L)] \o R[1]>>
            \o SubSeq(R, 2, Len(R))

\* the translated text cut after every "\n", each line keeping its "\n"
RECURSIVE Split(_, _, _)
Split(t, lo, hi) ==
    IF lo > hi THEN <<>>
    ELSE IF lo = hi THEN << <<t[lo]>> >>
    ELSE Join(Split(t, lo, (lo + hi) \div 2),
              Split(t, (lo + hi) \div 2 + 1, hi))

SplitLines(t) == Split(t, 1, Len(t))

readlines(data) == SplitLines(UniversalNewlines(data))

\* TextIOWrapper._CHUNK_SIZE: readlines asks the file for this many
\* characters per read() call, and the text layer passes its pending
\* strings down when they reach this size, or before a string that would
\* exceed it
CHUNK_SIZE == 8192

\* one read() call at offset pos: the characters the file holds there now
Chunk(data, pos) == SubSeq(data, pos + 1, Min(pos + CHUNK_SIZE, Len(data)))

\* the characters read end in "\r": the newline decoder holds it back, the
\* next character tells "\r\n" from "\r"
Undecided(buf) == buf # <<>> /\ buf[Len(buf)] = CR

Decided(buf) ==
    IF Undecided(buf) THEN SubSeq(buf, 1, Len(buf) - 1) ELSE buf

EndsLine(s) == s # <<>> /\ s[Len(s)] \in {LF, CR}

\* the lines ls of the decided characters s: the whole lines go to the
\* list, an unfinished last line waits for the next read() call
DecodeOf(ls, s, held) ==
    IF s = <<>> \/ EndsLine(s)
    THEN [lines |-> ls, rest |-> held]
    ELSE [lines |-> SubSeq(ls, 1, Len(ls) - 1), rest |-> ls[Len(ls)] \o held]

Decode(buf) ==
    DecodeOf(readlines(Decided(buf)), Decided(buf),
             IF Undecided(buf) THEN <<CR>> ELSE <<>>)

---------------------------------------------------------------------------
(* Slice and append *)

\* variant: the slice taken one line too far, lines[:3790]
SliceOneMore(ls) == SubSeq(ls, 1, Min(N + 1, Len(ls)))
\* lines[:3789]
Slice(ls) == SubSeq(ls, 1, Min(N, Len(ls)))

\* variant: the closure appended only when the list does not end with it
AppendOnceOnly(tl) ==
    IF tl # <<>> /\ tl[Len(tl)] = SubSeq(closure, 2, Len(closure))
    THEN tl ELSE Append(tl, closure)
\* truncated_lines.append("\n}() );\n")
AppendClosure(tl) == Append(tl, closure)

---------------------------------------------------------------------------
(* Text-mode writing: open(temp_path, 'w', encoding='utf-8').writelines() *)

\* the strings one after the other, nothing added between them
RECURSIVE Flatten(_, _, _)
Flatten(ls, lo, hi) ==
    IF lo > hi THEN <<>>
    ELSE IF lo = hi THEN ls[lo]
    ELSE Flatten(ls, lo, (lo + hi) \div 2)
            \o Flatten(ls, (lo + hi) \div 2 + 1, hi)

\* newline=None on output: every "\n" is written as os.linesep
RECURSIVE Encode(_, _, _, _)
Encode(t, sep, lo, hi) ==
    IF lo > hi THEN <<>>
    ELSE IF lo = hi THEN (IF t[lo] = LF THEN sep ELSE <<t[lo]>>)
    ELSE Encode(t, sep, lo, (lo + hi) \div 2)
            \o Encode(t, sep, (lo + hi) \div 2 + 1, hi)

EncodeText(t, sep) == Encode(t, sep, 1, Len(t))

\* writelines calls write() for each string, which translates it
EncodedLines(ls, sep) == [i \in 1..Len(ls) |-> EncodeText(ls[i], sep)]

\* the text f.writelines(ls) hands to the writer
writelines(ls, sep) ==
    Flatten(EncodedLines(ls, sep), 1, Len(EncodedLines(ls, sep)))

\* end offsets L of some strings followed by the end offsets R of the next
Shift(L, R) ==
    IF L = <<>> THEN R
    ELSE L \o [i \in 1..Len(R) |-> R[i] + L[Len(L)]]

\* the offset in the text at which each written string ends
RECURSIVE Ends(_, _, _)
Ends(ls, lo, hi) ==
    IF lo > hi THEN <<>>
    ELSE IF lo = hi THEN <<Len(ls[lo])>>
    ELSE Shift(Ends(ls, lo, (lo + hi) \div 2),
               Ends(ls, (lo + hi) \div 2 + 1, hi))

\* io.DEFAULT_BUFFER_SIZE
DEFAULT_BUFFER_SIZE == 8192
\* st_blksize of the file system holding temp_path
ST_BLKSIZE == 4096

\* open(): the buffer of the binary layer is st_blksize where the platform
\* has it (POSIX), io.DEFAULT_BUFFER_SIZE where it has not (Windows)
buffer_size(sep) == IF sep = <<LF>> THEN ST_BLKSIZE ELSE DEFAULT_BUFFER_SIZE

\* the writer before writelines: nothing passed down (sent), nothing in the
\* buffer of the binary layer (held), no characters coming into
\* BufferedWriter.write (inc); stage is "text" when no write() call is due,
\* "drain" when the buffer is being written out, "direct" when incoming
\* characters go to disk past the buffer; tries counts the times the close
\* after an exception still writes the buffer out
NoWriter ==
    [marks |-> <<>>, sent |-> 0, held |-> 0, inc |-> 0, stage |-> "text",
     tries |-> 0]

\* the file system of temp_path takes all that is written
Roomy == [state |-> "free", room |-> 0]

\* a write() call raises: no room is left
NoRoom(d) == d.state = "limited" /\ d.room = 0

\* the characters a write() call of asked characters puts on disk
Written(asked, d) ==
    IF d.state = "limited" THEN Min(asked, d.room) ELSE asked

\* the file system after a write() call that put k characters on disk
Used(d, k) ==
    IF d.state = "limited" THEN [d EXCEPT !.room = @ - k] ELSE d

\* number of strings that end at or before offset k
EndedBy(marks, k) == Cardinality({i \in 1..Len(marks) : marks[i] <= k})

\* where the pending strings passed down next end: as many whole strings
\* as fit in CHUNK_SIZE, or one string longer than that
ChunkEnd(marks, from) ==
    IF EndedBy(marks, from + CHUNK_SIZE) > EndedBy(marks, from)
    THEN marks[EndedBy(marks, from + CHUNK_SIZE)]
    ELSE marks[EndedBy(marks, from) + 1]

\* write() passes the pending strings down during writelines: they have
\* reached CHUNK_SIZE, or the next string would take them beyond it
ChunkDue(marks, from) ==
    /\ EndedBy(marks, from) < Len(marks)
    /\ \/ ChunkEnd(marks, from) - from >= CHUNK_SIZE
       \/ ChunkEnd(marks, from) < marks[Len(marks)]

\* BufferedWriter.write of n characters: they are kept when they fit in
\* the buffer; when they do not, the buffer is written out first, or, the
\* buffer being empty, they go to disk themselves
Accept(w, n, size) ==
    IF n <= size - w.held THEN [w EXCEPT !.held = @ + n]
    ELSE [w EXCEPT !.inc = n,
                   !.stage = IF w.held > 0 THEN "drain" ELSE "direct"]

\* the writer after a write() call that put k characters on disk.  Writing
\* out the buffer goes on until it is empty; the incoming characters then
\* go to disk when they are more than the buffer takes, and into the
\* buffer otherwise.  Writing incoming characters goes on while more than
\* the buffer takes are left; the rest is kept
Progress(w, k, size) ==
    IF w.stage = "drain"
    THEN IF w.held > k THEN [w EXCEPT !.held = @ - k]
         ELSE IF w.inc > size THEN [w EXCEPT !.held = 0, !.stage = "direct"]
         ELSE [w EXCEPT !.held = w.inc, !.inc = 0, !.stage = "text"]
    ELSE IF w.inc - k > size THEN [w EXCEPT !.inc = @ - k]
         ELSE [w EXCEPT !.held = w.inc - k, !.inc = 0, !.stage = "text"]

\* close: once the last strings are with the binary layer, its buffer is
\* written out
Closing(w) ==
    IF w.stage = "text" /\ w.held > 0 THEN [w EXCEPT !.stage = "drain"]
    ELSE w

\* a write() call has raised: the characters that were coming in are
\* dropped, the buffer keeps what it holds, and the close at the end of the
\* with block tries to write it out
Aborting(w, tries) ==
    [w EXCEPT !.inc = 0,
              !.stage = IF w.held > 0 THEN "drain" ELSE "text",
              !.tries = IF w.held > 0 THEN tries ELSE 0]

---------------------------------------------------------------------------
(* The files the script may find *)

Alphabet == {"b", LF, CR}

Tails(m) == UNION {[1..k -> Alphabet] : k \in 0..m}

\* k lines "aa\n"
Filler(k) == [i \in 1..(3 * k) |-> IF i % 3 = 0 THEN LF ELSE "a"]

SmallSources == Tails(MaxTail)

\* how a long source file ends after its filler lines
BigTails == {<<>>, <<"b">>, <<"b", LF>>, <<"b", CR, LF>>}

\* sources with N - 1, N and N + 1 lines
BigSources == {Filler(k) \o t : k \in {N - 1, N}, t \in BigTails}

Sources == SmallSources \cup BigSources

\* what an earlier, failed run may have left at temp_path
Stale == <<"z", LF>>

\* what another process writes to file_path
ExternalData == <<"x", LF, "x", LF>>

Init ==
    /\ linesep \in Platforms
    /\ target \in {Absent} \cup {File(d) : d \in Sources}
    /\ temp \in {Absent, File(Stale)}
    /\ pc = "open_read"
    /\ lines = <<>>
    /\ partial = <<>>
    /\ truncated_lines = <<>>
    /\ pending = <<>>
    /\ writer = NoWriter
    /\ disk = Roomy
    /\ stdout = <<>>
    /\ failedAt = "none"
    /\ orig = target
    /\ origTemp = temp
    /\ readData = <<>>
    /\ outputs = <<>>
    /\ runs = 1
    /\ extPhases = {}

---------------------------------------------------------------------------
(* The statements of the script *)

\* variant: a missing file_path opened as an empty file
ReadMissingAsEmpty ==
    /\ pc = "open_read"
    /\ lines' = <<>>
    /\ partial' = <<>>
    /\ readData' = <<>>
    /\ pc' = "read"
    /\ UNCHANGED <<target, temp, linesep, disk, truncated_lines, pending, writer,
                   stdout, failedAt, orig, origTemp, outputs, runs, extPhases>>
\* line 7: open(file_path, 'r') finds the file; nothing is read yet
OpenRead ==
    /\ pc = "open_read"
    /\ target.exists
    /\ lines' = <<>>
    /\ partial' = <<>>
    /\ readData' = <<>>
    /\ pc' = "read"
    /\ UNCHANGED <<target, temp, linesep, disk, truncated_lines, pending, writer,
                   stdout, failedAt, orig, origTemp, outputs, runs, extPhases>>

\* line 8, inside readlines: one read() call at the offset the file object
\* has reached.  Characters that come are cut into lines; when none come,
\* an unfinished line is a line of the list, and with no unfinished line
\* the list is complete
ReadCall ==
    /\ pc = "read"
    /\ \E chunk \in {Chunk(target.data, Len(readData))} :
          /\ readData' = readData \o chunk
          /\ IF chunk # <<>>
             THEN /\ \E d \in {Decode(partial \o chunk)} :
                        /\ lines' = lines \o d.lines
                        /\ partial' = d.rest
                  /\ pc' = pc
             ELSE IF partial # <<>>
             THEN /\ lines' = lines \o readlines(partial)
                  /\ partial' = <<>>
                  /\ pc' = pc
             ELSE /\ pc' = "slice"
                  /\ UNCHANGED <<lines, partial>>
    /\ UNCHANGED <<target, temp, linesep, disk, truncated_lines, pending, writer,
                   stdout, failedAt, orig, origTemp, outputs, runs, extPhases>>

\* lines 7-8 raising: FileNotFoundError when file_path does not exist,
\* PermissionError, an I/O error or UnicodeDecodeError when it does
ReadFail ==
    /\ pc \in {"open_read", "read"}
    /\ pc' = "failed"
    /\ failedAt' = "open_read"
    /\ UNCHANGED <<target, temp, linesep, disk, lines, partial, truncated_lines,
                   pending, writer, stdout, orig, origTemp, readData, outputs,
                   runs, extPhases>>

\* line 15: truncated_lines = lines[:3789]
SliceStep ==
    /\ pc = "slice"
    /\ truncated_lines' = Slice(lines)
    /\ pc' = "append"
    /\ UNCHANGED <<target, temp, linesep, disk, lines, partial, pending, writer,
                   stdout, failedAt, orig, origTemp, readData, outputs, runs,
                   extPhases>>

\* line 18: truncated_lines.append("\n}() );\n")
AppendStep ==
    /\ pc = "append"
    /\ truncated_lines' = AppendClosure(truncated_lines)
    /\ pc' = "open_temp"
    /\ UNCHANGED <<target, temp, linesep, disk, lines, partial, pending, writer,
                   stdout, failedAt, orig, origTemp, readData, outputs, runs,
                   extPhases>>

\* variant: temp_path opened with 'a', keeping what is there
OpenTempAppend ==
    /\ pc = "open_temp"
    /\ temp' = File(temp.data)
    /\ pending' = <<>>
    /\ writer' = NoWriter
    /\ pc' = "writelines"
    /\ UNCHANGED <<target, linesep, disk, lines, partial, truncated_lines, stdout,
                   failedAt, orig, origTemp, readData, outputs, runs,
                   extPhases>>
\* line 20: open(temp_path, 'w') creates the file or empties an existing one
OpenTemp ==
    /\ pc = "open_temp"
    /\ temp' = File(<<>>)
    /\ pending' = <<>>
    /\ writer' = NoWriter
    /\ pc' = "writelines"
    /\ UNCHANGED <<target, linesep, disk, lines, partial, truncated_lines, stdout,
                   failedAt, orig, origTemp, readData, outputs, runs,
                   extPhases>>

\* line 20 raising (PermissionError, ...): temp_path is not touched
OpenTempFail ==
    /\ pc = "open_temp"
    /\ pc' = "failed"
    /\ failedAt' = "open_temp"
    /\ UNCHANGED <<target, temp, linesep, disk, lines, partial, truncated_lines,
                   pending, writer, stdout, orig, origTemp, readData, outputs,
                   runs, extPhases>>

\* line 21: f.writelines(truncated_lines) is entered; the writer has the
\* text, string by string
Writelines ==
    /\ pc = "writelines"
    /\ pending' = writelines(truncated_lines, linesep)
    /\ writer' = [NoWriter EXCEPT
                    !.marks = Ends(EncodedLines(truncated_lines, linesep), 1,
                                   Len(truncated_lines))]
    /\ pc' = "flush"
    /\ UNCHANGED <<target, temp, linesep, disk, lines, partial,
                   truncated_lines, stdout, failedAt, orig, origTemp,
                   readData, outputs, runs, extPhases>>

\* line 21, inside writelines: the text layer passes its pending strings to
\* the binary layer, which keeps them in its buffer or has write() calls
\* to make
Flush ==
    /\ pc = "flush"
    /\ writer.stage = "text"
    /\ ChunkDue(writer.marks, writer.sent)
    /\ writer' = Accept([writer EXCEPT
                           !.sent = ChunkEnd(writer.marks, writer.sent)],
                        ChunkEnd(writer.marks, writer.sent) - writer.sent,
                        buffer_size(linesep))
    /\ UNCHANGED <<target, temp, linesep, disk, pc, lines, partial,
                   truncated_lines, pending, stdout, failedAt, orig, origTemp,
                   readData, outputs, runs, extPhases>>

\* end of the with block of lines 20-21: writelines has returned; closing f
\* passes the last strings to the binary layer and has its buffer written
\* out.  With nothing left to write the file is closed at once
CloseTemp ==
    /\ pc = "flush"
    /\ writer.stage = "text"
    /\ ~ChunkDue(writer.marks, writer.sent)
    /\ \E w \in {Closing(Accept([writer EXCEPT !.sent = Len(pending)
                                                        - writer.held + @],
                                Len(pending) - writer.held,
                                buffer_size(linesep)))} :
          /\ writer' = w
          /\ pc' = IF w.stage = "text" THEN "replace" ELSE "close"
    /\ UNCHANGED <<target, temp, linesep, disk, lines, partial,
                   truncated_lines, pending, stdout, failedAt, orig, origTemp,
                   readData, outputs, runs, extPhases>>

\* lines 20-21, one write() call of the binary layer that the file system
\* takes, in full or as far as there is room: these characters are on
\* disk.  In writelines the writer goes on; in the close the file is closed
\* when nothing is left; in the close after an exception the run is over
\* when the buffer is empty
WriteCall ==
    /\ pc \in {"flush", "close", "abort"}
    /\ writer.stage # "text"
    /\ ~NoRoom(disk)
    /\ \E k \in {Written(IF writer.stage = "drain" THEN writer.held
                         ELSE writer.inc, disk)} :
          /\ temp' = File(temp.data \o SubSeq(pending, 1, k))
          /\ pending' = SubSeq(pending, k + 1, Len(pending))
          /\ disk' = Used(disk, k)
          /\ \E w \in {IF pc = "close"
                       THEN Closing(Progress(writer, k, buffer_size(linesep)))
                       ELSE Progress(writer, k, buffer_size(linesep))} :
                /\ writer' = w
                /\ pc' = IF w.stage # "text" THEN pc
                         ELSE IF pc = "close" THEN "replace"
                         ELSE IF pc = "abort" THEN "failed"
                         ELSE pc
    /\ UNCHANGED <<target, linesep, lines, partial, truncated_lines, stdout,
                   failedAt, orig, origTemp, readData, outputs, runs,
                   extPhases>>

\* variant: a failed write removes the temporary file
WriteFailCleanup ==
    /\ pc \in {"flush", "close"}
    /\ writer.stage # "text"
    /\ NoRoom(disk)
    /\ pc' = "failed"
    /\ failedAt' = "write"
    /\ temp' = Absent
    /\ UNCHANGED <<target, linesep, disk, lines, partial, truncated_lines,
                   pending, writer, stdout, orig, origTemp, readData, outputs,
                   runs, extPhases>>
\* lines 20-21 raising (disk full, file size limit, I/O error): a write()
\* call of writelines or of the close finds no room.  Nothing goes to disk;
\* the strings not yet in the buffer are never written.  The exception
\* leaves the with block, whose close has the buffer written out: twice
\* (flush, then close of the binary layer) after a failure in writelines,
\* once more after a failure in the close itself
WriteFail ==
    /\ pc \in {"flush", "close"}
    /\ writer.stage # "text"
    /\ NoRoom(disk)
    /\ failedAt' = "write"
    /\ \E w \in {Aborting(writer, IF pc = "flush" THEN 2 ELSE 1)} :
          /\ writer' = w
          /\ pending' = SubSeq(pending, 1, w.held)
          /\ pc' = IF w.held > 0 THEN "abort" ELSE "failed"
    /\ UNCHANGED <<target, temp, linesep, disk, lines, partial,
                   truncated_lines, stdout, orig, origTemp, readData, outputs,
                   runs, extPhases>>

\* lines 20-21, the close after an exception: a write() call of it finds
\* no room either.  The buffer keeps its characters; after the last try
\* the file is closed without them
CloseFail ==
    /\ pc = "abort"
    /\ NoRoom(disk)
    /\ writer' = [writer EXCEPT !.tries = @ - 1]
    /\ pc' = IF writer.tries > 1 THEN "abort" ELSE "failed"
    /\ UNCHANGED <<target, temp, linesep, disk, lines, partial,
                   truncated_lines, pending, stdout, failedAt, orig, origTemp,
                   readData, outputs, runs, extPhases>>

\* the file system of temp_path runs out of room while the script has a
\* write() call to make: it takes room more characters, then none
DiskFills ==
    /\ pc \in {"flush", "close"}
    /\ writer.stage # "text"
    /\ disk.state = "free"
    /\ \E room \in 0..MaxRoom : disk' = [state |-> "limited", room |-> room]
    /\ UNCHANGED <<target, temp, linesep, pc, lines, partial, truncated_lines,
                   pending, writer, stdout, failedAt, orig, origTemp,
                   readData, outputs, runs, extPhases>>

\* the file system has room again (space freed, a passing I/O error over)
DiskFrees ==
    /\ pc \in {"flush", "close", "abort"}
    /\ disk.state = "limited"
    /\ disk' = [state |-> "freed", room |-> 0]
    /\ UNCHANGED <<target, temp, linesep, pc, lines, partial, truncated_lines,
                   pending, writer, stdout, failedAt, orig, origTemp,
                   readData, outputs, runs, extPhases>>

\* variant: the temporary file copied over file_path in two pieces and then
\* removed, instead of renamed
ReplaceByCopy ==
    /\ pc = "replace"
    /\ IF target.exists
          /\ target.data = SubSeq(temp.data, 1, (Len(temp.data) + 1) \div 2)
       THEN /\ target' = temp
            /\ temp' = Absent
            /\ outputs' = Append(outputs, temp.data)
            /\ pc' = "print"
       ELSE /\ target' = File(SubSeq(temp.data, 1,
                                     (Len(temp.data) + 1) \div 2))
            /\ UNCHANGED <<temp, outputs, pc>>
    /\ UNCHANGED <<linesep, disk, lines, partial, truncated_lines, pending, writer, stdout, failedAt,
                   orig, origTemp, readData, runs, extPhases>>
\* variant: the rename skipped when file_path changed since it was read
ReplaceUnlessChanged ==
    /\ pc = "replace"
    /\ target' = IF target.data = readData THEN temp ELSE target
    /\ temp' = Absent
    /\ outputs' = Append(outputs, target'.data)
    /\ pc' = "print"
    /\ UNCHANGED <<linesep, disk, lines, partial, truncated_lines, pending, writer, stdout, failedAt,
                   orig, origTemp, readData, runs, extPhases>>
\* line 24: os.replace(temp_path, file_path), one atomic rename
Replace ==
    /\ pc = "replace"
    /\ target' = temp
    /\ temp' = Absent
    /\ outputs' = Append(outputs, temp.data)
    /\ pc' = "print"
    /\ UNCHANGED <<linesep, disk, lines, partial, truncated_lines, pending, writer, stdout, failedAt,
                   orig, origTemp, readData, runs, extPhases>>

\* line 24 raising: neither path changes
ReplaceFail ==
    /\ pc = "replace"
    /\ pc' = "failed"
    /\ failedAt' = "replace"
    /\ UNCHANGED <<target, temp, linesep, disk, lines, partial, truncated_lines, pending, writer,
                   stdout, orig, origTemp, readData, outputs, runs, extPhases>>

\* line 26: print(f"Truncated {file_path} to {len(truncated_lines)} lines.")
PrintStep ==
    /\ pc = "print"
    /\ stdout' = Append(stdout, Len(truncated_lines))
    /\ pc' = "done"
    /\ UNCHANGED <<target, temp, linesep, disk, lines, partial, truncated_lines, pending, writer,
                   failedAt, orig, origTemp, readData, outputs, runs, extPhases>>

\* the script is started again after a successful run
Rerun ==
    /\ pc = "done"
    /\ runs < MaxRuns
    /\ runs' = runs + 1
    /\ pc' = "open_read"
    /\ lines' = <<>>
    /\ truncated_lines' = <<>>
    /\ pending' = <<>>
    /\ writer' = NoWriter
    /\ UNCHANGED <<target, temp, linesep, disk, partial, stdout, failedAt, orig,
                   origTemp, readData, outputs, extPhases>>

\* the phase of the run a statement belongs to
Phase(at) ==
    IF at = "open_read" THEN "before_read"
    ELSE IF at = "read" THEN "during_read"
    ELSE IF at \in {"print", "done"} THEN "after_replace"
    ELSE IF at \in {"abort", "failed"} THEN "after_failure"
    ELSE "after_read"

\* another process rewrites file_path; the script holds no lock
ExternalModify ==
    /\ target.exists
    /\ target' = File(ExternalData)
    /\ extPhases' = extPhases \cup {Phase(pc)}
    /\ UNCHANGED <<temp, linesep, disk, pc, lines, partial, truncated_lines, pending, writer, stdout,
                   failedAt, orig, origTemp, readData, outputs, runs>>

Next ==
    \/ OpenRead
    \/ ReadCall
    \/ ReadFail
    \/ SliceStep
    \/ AppendStep
    \/ OpenTemp
    \/ OpenTempFail
    \/ Writelines
    \/ Flush
    \/ CloseTemp
    \/ WriteCall
    \/ WriteFail
    \/ CloseFail
    \/ DiskFills
    \/ DiskFrees
    \/ Replace
    \/ ReplaceFail
    \/ PrintStep

Spec == Init /\ [][Next]_vars

NextTwice == Next \/ Rerun

SpecTwice == Init /\ [][NextTwice]_vars

NextRace == Next \/ ExternalModify

SpecRace == Init /\ [][NextRace]_vars

---------------------------------------------------------------------------
(* What the properties are stated with *)

\* the content a complete run makes of the lines it has read
Output(ls, sep) == writelines(AppendClosure(Slice(ls)), sep)

\* the content a complete run makes of a file holding d all through the
\* read
NewContent(d, sep) == Output(readlines(d), sep)

\* two runs of raw lines put together; a line ends after "\n", after
\* "\r\n", and after a "\r" that no "\n" follows
JoinRaw(L, R) ==
    IF L = <<>> THEN R
    ELSE IF R = <<>> THEN L
    ELSE IF \/ L[Len(L)][Len(L[Len(L)])] = LF
            \/ L[Len(L)][Len(L[Len(L)])] = CR /\ R[1][1] # LF
         THEN L \o R
    ELSE SubSeq(L, 1, Len(L) - 1) \o <<L[Len(L)] \o R[1]>>
            \o SubSeq(R, 2, Len(R))

RECURSIVE SplitRaw(_, _, _)
SplitRaw(s, lo, hi) ==
    IF lo > hi THEN <<>>
    ELSE IF lo = hi THEN << <<s[lo]>> >>
    ELSE JoinRaw(SplitRaw(s, lo, (lo + hi) \div 2),
                 SplitRaw(s, (lo + hi) \div 2 + 1, hi))

\* the lines of a content, each with the terminator the content has
RawLines(data) == SplitRaw(data, 1, Len(data))

\* the characters of the first N lines of a content, as the content has them
RawPrefix(raw) == Flatten(raw, 1, Min(N, Len(raw)))

StartsWith(data, prefix) ==
    /\ Len(prefix) <= Len(data)
    /\ SubSeq(data, 1, Len(prefix)) = prefix

\* number of places of text where pat stands
Occurrences(text, pat) ==
    Cardinality({i \in 1..(Len(text) - Len(pat) + 1) :
                    SubSeq(text, i, i + Len(pat) - 1) = pat})

HasChar(data, c) == \E i \in 1..Len(data) : data[i] = c

LongSourceOutput(src, out) ==
    Len(src) > N =>
        /\ Len(out) = N + 2
        /\ out[N + 1] = <<LF>>
        /\ out[N + 2] = <<"}", "(", ")", " ", ")", ";", LF>>
        /\ SubSeq(out, 1, N) = SubSeq(src, 1, N)

SecondRunAsClaimed(n, o1, o2) ==
    /\ o2 = o1 => n >= N
    /\ n < N => /\ o2 # o1
                /\ Occurrences(UniversalNewlines(o2), closure) >= 2

SecondRunAmended(n, src, o1, o2) ==
    /\ o2 = o1 => n >= N
    /\ n < N =>
        /\ o2 # o1
        /\ Len(readlines(o1)) <= N
              => Occurrences(UniversalNewlines(o2), closure) >= 2
        /\ Len(readlines(o1)) > N
              => /\ n = N - 1
                 /\ UniversalNewlines(o2)
                      = UniversalNewlines(src) \o <<LF>> \o closure

---------------------------------------------------------------------------
(* C1 *)

\* C1: in every state of a run, also one that stops or fails at any step,
\* file_path holds either exactly what it held before the run or exactly
\* the complete new content (the first N lines and the closure): never a
\* part of it.
C1_TargetNeverPartial ==
    \/ target = orig
    \/ /\ target.exists
       /\ orig.exists
       /\ target.data = NewContent(orig.data, linesep)

\* writelines has put a part of the new content on disk at temp_path, the
\* rest is still with the writer, file_path is untouched
C1_Witness ==
    /\ pc = "flush"
    /\ temp.data # <<>>
    /\ pending # <<>>
    /\ orig.exists
    /\ target = orig

(* C2 *)

\* C2: a source of more than N lines gives, after a successful run, a file
\* of exactly N + 2 lines (read as the script reads lines): the first N
\* lines of the source, then "\n", then "}() );\n"; nothing of the source
\* after line N is in it.
C2_LongSourceTruncated ==
    (pc = "done" /\ orig.exists) =>
        LongSourceOutput(readlines(orig.data), readlines(target.data))

C2_Witness ==
    /\ pc = "done"
    /\ Len(lines) > N
    /\ Len(readlines(target.data)) = N + 2

(* C3 *)

\* C3: a source of N or fewer lines gives, after a successful run, the
\* whole original content, unchanged, followed by "\n}() );\n" (as text
\* mode writes it on the platform).
C3_ShortSourceKeptWhole ==
    (pc = "done" /\ Len(lines) <= N) =>
        target.data = orig.data \o EncodeText(closure, linesep)

(* C4 *)

\* C4: the retained prefix is preserved byte for byte: after a successful
\* run the file starts with the first min(N, number of lines) lines of the
\* source, each with the line terminator (LF, CRLF or CR) the source has.
C4_PrefixByteForByte ==
    pc = "done" => StartsWith(target.data, RawPrefix(RawLines(orig.data)))

(* C5 *)

\* C5: the count printed by a successful run is the number of lines the
\* file at file_path holds after the run.
C5_ReportsFinalLineCount ==
    pc = "done" => stdout[Len(stdout)] = Len(readlines(target.data))

(* C6 *)

\* C6: when file_path does not exist, or cannot be opened for reading, the
\* run fails at the read: temp_path is neither created nor modified,
\* file_path is left as it was, no rename is attempted, nothing is printed.
C6_ReadFailureTouchesNothing ==
    /\ ~orig.exists => pc \in {"open_read", "failed"}
    /\ (~orig.exists \/ failedAt = "open_read") =>
          /\ pc = "failed" => failedAt = "open_read"
          /\ target = orig
          /\ temp = origTemp
          /\ outputs = <<>>
          /\ stdout = <<>>

\* the run has failed on a missing source, an old temporary file is there
C6_Witness ==
    /\ pc = "failed"
    /\ failedAt = "open_read"
    /\ ~orig.exists
    /\ origTemp.exists
    /\ temp = origTemp

(* C7 *)

\* C7: after a successful run nothing exists at temp_path, whether or not
\* a file was there before the run, and nothing of an old temporary file
\* is in the final content of file_path.
C7_NoTempLeft ==
    pc \in {"print", "done"} =>
        /\ ~temp.exists
        /\ ~HasChar(target.data, "z")

C7_Witness ==
    /\ pc = "done"
    /\ origTemp.exists
    /\ ~temp.exists
    /\ target # orig

(* C8 *)

\* C8 as stated: when the second of two successive runs leaves the content
\* of the first, the original source had at least N lines; for every
\* original source of fewer than N lines the second run gives another
\* content, in which the closure stands a second time.
C8_SecondRunAsStated ==
    Len(outputs) >= 2 =>
        SecondRunAsClaimed(Len(readlines(orig.data)), outputs[1], outputs[2])

\* C8 amended: when the second run leaves the content of the first, the
\* original source had at least N lines; for every original source of fewer
\* than N lines the second run gives another content; the closure stands in
\* it a second time when the first run's output has at most N lines; when it
\* has more (the source had N - 1 lines, the last one terminated) the second
\* run keeps the closure's empty line and cuts "}() );", so its content is
\* the source, one more empty line, and the closure once.
C8_SecondRun ==
    Len(outputs) >= 2 =>
        SecondRunAmended(Len(readlines(orig.data)), orig.data,
                         outputs[1], outputs[2])

\* a second run over the output of a source of N - 1 terminated lines
C8_Witness ==
    /\ Len(outputs) >= 2
    /\ pc = "done"
    /\ Len(readlines(orig.data)) = N - 1
    /\ Len(readlines(outputs[1])) = N + 1
    /\ outputs[2] # outputs[1]

(* C9 *)

\* C9: a failure of the write or of the rename ends the run: from the
\* exception on nothing is printed, file_path holds the original content,
\* the rename is not attempted, no further string is handed to the writer
\* (the close of the with block only writes out what its buffer holds),
\* no step follows the end of the run, and the temporary file, partly or
\* fully written, stays: only the rename ever removes it.
C9_FailureAbortsNoCleanup ==
    /\ [](failedAt \in {"write", "replace"} =>
            /\ pc \in {"abort", "failed"}
            /\ stdout = <<>>
            /\ target = orig
            /\ temp.exists)
    /\ [][pc # "failed"]_vars
    /\ [][pc = "abort" => /\ pc' \in {"abort", "failed"}
                          /\ writer'.sent = writer.sent
                          /\ Len(pending') <= Len(pending)]_vars
    /\ [][temp.exists /\ ~temp'.exists => pc = "replace" /\ pc' = "print"]_vars

\* the write failed with a part of the text on disk, and the close after
\* the exception could not write out what the buffer holds
C9_Witness ==
    /\ pc = "failed"
    /\ failedAt = "write"
    /\ temp.exists
    /\ temp.data # <<>>
    /\ Len(temp.data) < writer.marks[Len(writer.marks)]
    /\ pending # <<>>
    /\ target = orig

(* C10 *)

\* C10: another process may rewrite file_path at any point; the rename
\* wins over what it wrote before the rename: right after it file_path
\* holds the first N lines of what the script has read, and the closure.
\* What was rewritten only after the read is lost in full: the content is
\* the one made of the file as it was at the start.
C10_RenameWins ==
    (pc \in {"print", "done"} /\ "after_replace" \notin extPhases) =>
        /\ target = File(Output(lines, linesep))
        /\ extPhases \subseteq {"after_read"} =>
              /\ readData = orig.data
              /\ target = File(NewContent(orig.data, linesep))

\* a modification between the read and the rename, lost after the run
C10_Witness ==
    /\ pc = "done"
    /\ extPhases = {"after_read"}
    /\ target.data # ExternalData
    /\ target.data = NewContent(orig.data, linesep)

====
